---- MODULE Spec2Model ----
(***************************************************************************)
(* Friend-request handlers of backend/src/controllers/user.controller.js  *)
(* over a document store with multi-document transactions (snapshot reads, *)
(* first-writer-wins write conflicts, writes visible at commit).           *)
(* and the client's theme store of frontend/src/store/useThemeStore.js.    *)
(***************************************************************************)
EXTENDS Integers, Sequences, FiniteSets, TLC

\* ---------------------------------------------------------------- bounds
MaxRequests == 2       \* stored FriendRequests
MaxDeleted == 1        \* user records the account subsystem removes

\* A request names two users and a race two handlers: three users (the two
\* parties and a bystander) and two invocations in flight show every case.
UserIds == {1, 2, 3}       \* _id of the user records that exist initially
NotOnboarded == {3}        \* of them, those with isOnboarded: false
Calls == {1, 2}            \* slots of the handler invocations in flight

ReqOid(k) == Cardinality(UserIds) + k      \* _id of the k-th stored request
ReqIndex(o) == o - Cardinality(UserIds)

\* ------------------------------------------------- ObjectId and its strings
\* A 24-digit hex string names an ObjectId whatever the case of its digits;
\* toString() always prints lowercase; anything else is not an id.
Junk == [oid |-> 0, form |-> "junk"]
HexStrings(oids) == [oid : oids, form : {"lower", "upper"}]

isValid(s) == s.form \in {"lower", "upper"}
ObjectId(s) == s.oid
toString(o) == [oid |-> o, form |-> "lower"]

\* Array.prototype.includes on ObjectIds: an id object is never === a string
includesStrict(friends, s) == FALSE

\* MongooseArray.includes: each element is compared through its toString()
includes(friends, s) == \E f \in friends : toString(f) = s

\* ------------------------------------------------------------- documents
NoUser == [exists |-> FALSE, isOnboarded |-> FALSE, friends |-> {}]
NoRequest == [oid |-> 0, sender |-> 0, recipient |-> 0, status |-> "none"]
NoRes == [status |-> 0, message |-> ""]
Res(code, msg) == [status |-> code, message |-> msg]

\* ------------------------------------------- driver's transaction states
NO_TRANSACTION == "NO_TRANSACTION"
STARTING_TRANSACTION == "STARTING_TRANSACTION"
TRANSACTION_IN_PROGRESS == "TRANSACTION_IN_PROGRESS"
TRANSACTION_COMMITTED == "TRANSACTION_COMMITTED"
TRANSACTION_ABORTED == "TRANSACTION_ABORTED"
ACTIVE_STATES == {STARTING_TRANSACTION, TRANSACTION_IN_PROGRESS}

VARIABLES
    users,     \* User collection: [UserIds -> document], NoUser once removed
    requests,  \* FriendRequest collection, in insertion order
    calls,     \* the handler invocations in flight
    themeStore \* the client's theme store and its localStorage item

vars == <<users, requests, calls, themeStore>>

Idle == [op |-> "idle", pc |-> "idle", myId |-> Junk, id |-> Junk,
         txn |-> NO_TRANSACTION, ended |-> FALSE,
         snap |-> {}, stale |-> {}, writes |-> {},
         currentUser |-> NoUser, recipient |-> NoUser,
         friendRequest |-> NoRequest, friendIds |-> {},
         incomingReqs |-> {}, acceptedReqs |-> {},
         outgoingRequests |-> {}, body |-> {},
         res |-> NoRes, fault |-> "none", committed |-> FALSE,
         effects |-> <<>>]

\* the handler's calls on its session and on res, in the order it makes them
Did(call, what) == [call EXCEPT !.effects = Append(@, what)]

\* --------------------------------------------------------------- the store
\* User.findById(id): the document, or null
UserFindById(o) == IF o \in UserIds THEN users[o] ELSE NoUser

\* a stored request as the document a query returns
RequestDoc(rs, k) ==
    [oid |-> ReqOid(k), sender |-> rs[k].sender,
     recipient |-> rs[k].recipient, status |-> rs[k].status]

\* FriendRequest.findById(id) in the transaction's snapshot
RequestFindById(rs, o) ==
    IF ReqIndex(o) \in 1..Len(rs) THEN RequestDoc(rs, ReqIndex(o)) ELSE NoRequest

\* FriendRequest.findOne({$or: [{sender: a, recipient: b}, {sender: b, recipient: a}]})
MatchesPairOneWay(r, a, b) == r.sender = a /\ r.recipient = b

MatchesPair(r, a, b) ==
    \/ r.sender = a /\ r.recipient = b
    \/ r.sender = b /\ r.recipient = a

\* the documents of the collection the query can match
Matching(rs, a, b) ==
    {RequestDoc(rs, k) : k \in {i \in 1..Len(rs) : MatchesPair(rs[i], a, b)}}

\* findOne returns the first match in the collection's order
findOne(docs, a, b) ==
    LET ms == {d \in docs : MatchesPair(d, a, b)}
    IN  IF ms = {} THEN NoRequest
        ELSE CHOOSE d \in ms : \A e \in ms : d.oid <= e.oid

\* Pending writes of a transaction: [kind, id, val]
\*   "insert"   a new request from id to val
\*   "status"   request number id becomes accepted
\*   "addToSet" user id's friends gain val
DocKeys(ws) ==
    {<<"req", w.id>> : w \in {x \in ws : x.kind = "status"}}
      \cup {<<"user", w.id>> : w \in {x \in ws : x.kind = "addToSet"}}

ApplyUsers(us, ws) ==
    [u \in UserIds |->
        IF us[u].exists
        THEN [us[u] EXCEPT !.friends =
                @ \cup {w.val : w \in {x \in ws : x.kind = "addToSet" /\ x.id = u}}]
        ELSE us[u]]

ApplyRequests(rs, ws) ==
    LET upd == [k \in 1..Len(rs) |->
                  IF \E w \in ws : w.kind = "status" /\ w.id = k
                  THEN [rs[k] EXCEPT !.status = "accepted"] ELSE rs[k]]
        ins == {w \in ws : w.kind = "insert"}
    IN  IF ins = {} THEN upd
        ELSE LET w == CHOOSE x \in ins : TRUE
             IN  Append(upd, [sender |-> w.id, recipient |-> w.val, status |-> "pending"])

NoConflict(c, key) == FALSE

\* A write to a document fails with WriteConflict when the document changed
\* after the transaction's snapshot or another open transaction has written it.
WriteConflict(c, key) ==
    \/ key \in calls[c].stale
    \/ \E d \in Calls \ {c} : key \in DocKeys(calls[d].writes)

\* the documents a transaction goes on to write
WriteKeys(call) ==
    IF call.op = "accept" /\ call.friendRequest # NoRequest
    THEN {<<"req", ReqIndex(call.friendRequest.oid)>>,
          <<"user", call.friendRequest.sender>>,
          <<"user", call.friendRequest.recipient>>}
    ELSE {}

\* documents changed by a commit are stale for every other open snapshot
\* (kept for the documents the transaction goes on to write)
MarkStale(cs, c, keys) ==
    [d \in Calls |->
        IF d # c /\ cs[d].txn = TRANSACTION_IN_PROGRESS
        THEN [cs[d] EXCEPT !.stale = @ \cup (keys \cap WriteKeys(cs[d]))] ELSE cs[d]]

Running(call) == call.pc \notin {"idle", "done"}

\* A finished invocation hands over its response before anything else runs
\* (the response record is an observation, no handler reads it), and the
\* invocations in flight fill the slots in order (the slots are alike).
Quiet == \A d \in Calls : calls[d].pc # "done"
Free(c) == /\ Quiet
           /\ calls[c].pc = "idle"
           /\ \A d \in Calls : d < c => calls[d].pc # "idle"
Step(c, op, pc) == Quiet /\ calls[c].op = op /\ calls[c].pc = pc

Upd(c, call) == [calls EXCEPT ![c] = call]

\* session.endSession(): a transaction still active is aborted by the driver
endSession(call) ==
    Did([call EXCEPT !.pc = "done", !.ended = TRUE, !.writes = {},
                     !.txn = IF @ \in ACTIVE_STATES THEN TRANSACTION_ABORTED ELSE @],
        "endSession")

\* return res.status(code).json({message}) inside try, then the finally block
Respond(call, code, msg) ==
    endSession(Did([call EXCEPT !.res = Res(code, msg)], "res.json"))

\* an awaited store call rejects: the transaction has begun on the server
Throw(call, what) ==
    [call EXCEPT !.fault = what,
                 !.txn = IF @ = STARTING_TRANSACTION THEN TRANSACTION_IN_PROGRESS ELSE @]

\* session.abortTransaction() by the driver's state machine: the transaction
\* is dropped; once commitTransaction has been called the call rejects
\* ("Cannot call abortTransaction after calling commitTransaction")
abortRejects(call) == call.txn \notin ACTIVE_STATES
abortTransaction(call) ==
    Did([call EXCEPT !.txn = TRANSACTION_ABORTED, !.writes = {}], "abortTransaction")

\* catch (error) { await abortTransaction(); res.status(500)... } finally {...}
\* when abortTransaction rejects, the error leaves the handler: no response
CatchBlock(call) ==
    IF abortRejects(call) THEN endSession(Did(call, "abortTransaction"))
    ELSE Respond(abortTransaction(call), 500, "Server error")

\* a store call awaited inside try rejects, and the catch and finally blocks run
Catch(call, what) == CatchBlock(Throw(call, what))

\* the handlers without a session: catch { res.status(500)... }
Fail(call, what) == Did([call EXCEPT !.pc = "done", !.fault = what,
                                     !.res = Res(500, "Server error")], "res.json")
Reply(call, code, msg) ==
    Did([call EXCEPT !.pc = "done", !.res = Res(code, msg)], "res.json")

\* ------------------------------------------------------------------ inputs
RecipientInputs == HexStrings(UserIds) \cup {Junk}
RequestInputs == {toString(ReqOid(k)) : k \in 1..MaxRequests} \cup {Junk}

\* ------------------------------------------------- useThemeStore (client)
\* JavaScript values: strings, undefined, and null (getItem of an absent key)
Str(s) == [type |-> "string", v |-> s]
undefined == [type |-> "undefined", v |-> ""]
null == [type |-> "null", v |-> ""]

\* localStorage.setItem stores the string form of its argument
String(x) ==
    IF x.type = "string" THEN x
    ELSE IF x = null THEN Str("null") ELSE Str("undefined")

\* the left operand of || is kept when it is truthy
Truthy(x) == x.type = "string" /\ x.v # ""

ThemeNames == {"forest", "dark", "light", "retro"}
\* the arguments of setTheme, and the items a browser may hold at page load
ThemeInputs == {Str(s) : s \in ThemeNames \cup {""}} \cup {undefined}
StoredItems == {Str(s) : s \in ThemeNames \cup {""}} \cup {null}

createStoreNoDefault(item) ==
    [theme |-> item, item |-> item, pc |-> "idle",
     arg |-> undefined, prev |-> item, called |-> FALSE, threw |-> FALSE]

\* create(...): theme: localStorage.getItem("ChatApp") || "forest"
createStore(item) ==
    LET theme == IF Truthy(item) THEN item ELSE Str("forest")
    IN  [theme |-> theme, item |-> item, pc |-> "idle",
         arg |-> undefined, prev |-> theme, called |-> FALSE, threw |-> FALSE]

\* the collections and the handler invocations at the start
StoreInit ==
    /\ users = [u \in UserIds |->
                 [exists |-> TRUE, isOnboarded |-> u \notin NotOnboarded, friends |-> {}]]
    /\ requests = <<>>
    /\ calls = [c \in Calls |-> Idle]

Init ==
    /\ StoreInit
    /\ themeStore = createStore(null)

\* the authenticated callers of a handler: req.user.id of an existing user
Callers == {toString(u) : u \in {x \in UserIds : users[x].exists}}

\* the invocation record of a handler that has been entered
Entered(op, pc, myId, call) == [call EXCEPT !.op = op, !.pc = pc, !.myId = myId]

\* ------------------------------------------------------- sendFriendRequest
\* FriendRequest.create([{sender: myId, recipient: recipientId}], {session})
create(myId, recipientId) ==
    {[kind |-> "insert", id |-> ObjectId(myId), val |-> ObjectId(recipientId)]}

SendsInFlight == Cardinality({d \in Calls : calls[d].op = "send" /\ Running(calls[d])})

\* entry, startSession and startTransaction (before the try block), then the
\* try block up to the insert: the id checks, the reads of the transaction
\* (all of one snapshot), the checks on them, and create()
sendFriendRequest(c) ==
    /\ Free(c)
    /\ Len(requests) + SendsInFlight < MaxRequests
    /\ \E myId \in Callers, recipientId \in RecipientInputs :
       LET call == Entered("send", "try", myId,
                           [Idle EXCEPT !.id = recipientId, !.txn = STARTING_TRANSACTION,
                               !.effects = <<"startSession", "startTransaction">>])
       IN
       \/ calls' = Upd(c, Entered("send", "done", myId,
                           [Idle EXCEPT !.id = recipientId, !.fault = "startSession",
                                        !.effects = <<"startSession">>]))
       \/ IF ~isValid(recipientId)
          THEN calls' = Upd(c, Respond(call, 400, "Invalid user ID"))
          ELSE IF myId = recipientId
          THEN calls' = Upd(c, Respond(call, 400, "Cannot send request to yourself"))
          ELSE
            \/ calls' = Upd(c, Catch(call, "findById"))
            \/ LET currentUser == UserFindById(ObjectId(myId))
                   recipient == UserFindById(ObjectId(recipientId))
                   read == [call EXCEPT !.txn = TRANSACTION_IN_PROGRESS,
                              !.snap = Matching(requests, ObjectId(myId), ObjectId(recipientId)),
                              !.currentUser = currentUser, !.recipient = recipient]
                   existingRequest == findOne(read.snap, ObjectId(myId), ObjectId(recipientId))
               IN  IF ~currentUser.exists \/ ~recipient.exists
                   THEN calls' = Upd(c, Respond(read, 404, "User not found"))
                   ELSE IF \/ includes(currentUser.friends, recipientId)
                           \/ includes(recipient.friends, myId)
                   THEN calls' = Upd(c, Respond(read, 400, "Already friends"))
                   ELSE \/ calls' = Upd(c, Catch(read, "findOne"))
                        \/ IF existingRequest # NoRequest
                           THEN calls' = Upd(c, Respond(
                                   [read EXCEPT !.friendRequest = existingRequest], 400,
                                   IF existingRequest.status = "pending"
                                   THEN "Request already pending" ELSE "Already connected"))
                           ELSE \/ calls' = Upd(c, Catch(read, "create"))
                                \/ calls' = Upd(c, [read EXCEPT !.pc = "commit",
                                     !.writes = create(myId, recipientId)])
    /\ UNCHANGED <<users, requests, themeStore>>

\* commitTransaction fails: the driver marks the transaction committed all
\* the same, the server has dropped it
CommitFails(call) ==
    Catch(Did([call EXCEPT !.txn = TRANSACTION_COMMITTED, !.writes = {}],
              "commitTransaction"),
          "commitTransaction")

\* commitTransaction succeeds: the writes become visible together
Commit(c, call) ==
    /\ requests' = ApplyRequests(requests, calls[c].writes)
    /\ users' = ApplyUsers(users, calls[c].writes)
    /\ calls' = MarkStale(Upd(c, call), c, DocKeys(calls[c].writes))
    /\ UNCHANGED themeStore

\* commitTransaction, then the 201 response with the created document
sendCommit(c) ==
    /\ Step(c, "send", "commit")
    /\ LET call == calls[c] IN
         \/ /\ calls' = Upd(c, CommitFails(call))
            /\ UNCHANGED <<users, requests, themeStore>>
         \/ Commit(c, Respond([Did(call, "commitTransaction") EXCEPT
                                           !.txn = TRANSACTION_COMMITTED,
                                           !.committed = TRUE,
                                           !.friendRequest =
                                              [oid |-> ReqOid(Len(requests) + 1),
                                               sender |-> ObjectId(call.myId),
                                               recipient |-> ObjectId(call.id),
                                               status |-> "pending"]],
                              201, ""))

\* ----------------------------------------------------- acceptFriendRequest
isSender(friendRequest, myId) == toString(friendRequest.sender) = myId

isParty(friendRequest, myId) ==
    toString(friendRequest.recipient) = myId \/ toString(friendRequest.sender) = myId

\* friendRequest.recipient.toString() !== req.user.id
isRecipient(friendRequest, myId) == toString(friendRequest.recipient) = myId

isNotRejected(friendRequest) == friendRequest.status # "rejected"

\* friendRequest.status !== "pending"
isPending(friendRequest) == friendRequest.status = "pending"

\* entry, startSession and startTransaction (before the try block), then
\* the id check, findById, and the found / recipient / pending checks
acceptFriendRequest(c) ==
    /\ Free(c)
    /\ \E myId \in Callers, requestId \in RequestInputs :
       LET call == Entered("accept", "try", myId,
                           [Idle EXCEPT !.id = requestId, !.txn = STARTING_TRANSACTION,
                               !.effects = <<"startSession", "startTransaction">>])
       IN
       \/ calls' = Upd(c, Entered("accept", "done", myId,
                           [Idle EXCEPT !.id = requestId, !.fault = "startSession",
                                        !.effects = <<"startSession">>]))
       \/ IF ~isValid(requestId)
          THEN calls' = Upd(c, Respond(call, 400, "Invalid request ID"))
          ELSE
            \/ calls' = Upd(c, Catch(call, "findById"))
            \/ LET friendRequest == RequestFindById(requests, ObjectId(requestId))
                   read == [call EXCEPT !.txn = TRANSACTION_IN_PROGRESS,
                                        !.friendRequest = friendRequest]
               IN  IF friendRequest = NoRequest
                   THEN calls' = Upd(c, Respond(read, 404, "Request not found"))
                   ELSE IF ~isRecipient(friendRequest, myId)
                   THEN calls' = Upd(c, Respond(read, 403, "Unauthorized"))
                   ELSE IF ~isPending(friendRequest)
                   THEN calls' = Upd(c, Respond(read, 400, "Request already processed"))
                   ELSE calls' = Upd(c, [read EXCEPT !.pc = "save"])
    /\ UNCHANGED <<users, requests, themeStore>>

\* friendRequest.status = "accepted"; friendRequest.save({session})
acceptSave(c) ==
    /\ Step(c, "accept", "save")
    /\ LET call == calls[c]
           k == ReqIndex(call.friendRequest.oid)
       IN  \/ calls' = Upd(c, Catch(call, "save"))
           \/ IF WriteConflict(c, <<"req", k>>)
              THEN calls' = Upd(c, Catch(call, "save"))
              ELSE calls' = Upd(c, [call EXCEPT !.pc = "updateUsers",
                        !.friendRequest.status = "accepted",
                        !.writes = {[kind |-> "status", id |-> k, val |-> 0]}])
    /\ UNCHANGED <<users, requests, themeStore>>

findByIdAndUpdateSelf(id, friend) ==
    IF UserFindById(id).exists
    THEN {[kind |-> "addToSet", id |-> id, val |-> id]} ELSE {}

\* User.findByIdAndUpdate(id, {$addToSet: {friends: friend}}, {session}):
\* the write it adds, none when the snapshot holds no such user
findByIdAndUpdate(id, friend) ==
    IF UserFindById(id).exists
    THEN {[kind |-> "addToSet", id |-> id, val |-> friend]} ELSE {}

\* the two findByIdAndUpdate under Promise.all
acceptUpdateUsers(c) ==
    /\ Step(c, "accept", "updateUsers")
    /\ LET call == calls[c]
           fr == call.friendRequest
           updateOperations == findByIdAndUpdate(fr.sender, fr.recipient)
                                 \cup findByIdAndUpdate(fr.recipient, fr.sender)
       IN  \/ calls' = Upd(c, Catch(call, "findByIdAndUpdate"))
           \/ IF \E u \in {fr.sender, fr.recipient} : WriteConflict(c, <<"user", u>>)
              THEN calls' = Upd(c, Catch(call, "findByIdAndUpdate"))
              ELSE calls' = Upd(c, [call EXCEPT !.pc = "commit",
                                                !.writes = @ \cup updateOperations])
    /\ UNCHANGED <<users, requests, themeStore>>

\* commitTransaction, then the 200 response
acceptCommit(c) ==
    /\ Step(c, "accept", "commit")
    /\ LET call == calls[c] IN
         \/ /\ calls' = Upd(c, CommitFails(call))
            /\ UNCHANGED <<users, requests, themeStore>>
         \/ Commit(c, Respond([Did(call, "commitTransaction") EXCEPT
                                           !.txn = TRANSACTION_COMMITTED,
                                           !.committed = TRUE],
                              200, "Request accepted"))

\* ----------------------------------------------------- getRecommendedUsers
\* a handler without a transaction runs beside the writers only: two of
\* them read the store and never meet
ReadFree(c) == Free(c) /\ \A d \in Calls : calls[d].op \notin {"recommend", "friends", "requests", "outgoing"}

\* entry, findById(currentUserId).select("friends"), the 404, and friendIds
getRecommendedUsers(c) ==
    /\ ReadFree(c)
    /\ \E currentUserId \in Callers :
       LET call == Entered("recommend", "find", currentUserId, Idle)
           currentUser == UserFindById(ObjectId(currentUserId))
       IN  \/ calls' = Upd(c, Fail(call, "findById"))
           \/ IF ~currentUser.exists
              THEN calls' = Upd(c, Reply(call, 404, "User not found"))
              ELSE calls' = Upd(c, [call EXCEPT
                       !.friendIds = {toString(f) : f \in currentUser.friends}
                                       \cup {currentUserId}])
    /\ UNCHANGED <<users, requests, themeStore>>

\* User.find({_id: {$nin: friendIds}, isOnboarded: true})
UserFindNin(friendIds) ==
    {u \in UserIds : /\ users[u].exists
                     /\ u \notin {ObjectId(s) : s \in friendIds}
                     /\ users[u].isOnboarded}

\* the candidate query and the 200 response
recommendFind(c) ==
    /\ Step(c, "recommend", "find")
    /\ LET call == calls[c] IN
         \/ calls' = Upd(c, Fail(call, "find"))
         \/ calls' = Upd(c, Reply([call EXCEPT !.body = UserFindNin(call.friendIds)],
                                  200, ""))
    /\ UNCHANGED <<users, requests, themeStore>>

\* ------------------------------------------------------------ getMyFriends
\* populate("friends", ...): the friends whose user record is found
populateFriends(friends) == {f \in friends : UserFindById(f).exists}

\* the whole handler: findById(req.user.id).select("friends").populate(...)
getMyFriends(c) ==
    /\ ReadFree(c)
    /\ \E myId \in Callers :
       LET call == Entered("friends", "done", myId, Idle)
           user == UserFindById(ObjectId(myId))
       IN  \/ calls' = Upd(c, Fail(call, "findById"))
           \/ IF ~user.exists
              THEN calls' = Upd(c, Reply(call, 404, "User not found"))
              ELSE calls' = Upd(c, Reply([call EXCEPT
                                !.currentUser = user,
                                !.body = populateFriends(user.friends)], 200, ""))
    /\ UNCHANGED <<users, requests, themeStore>>

\* ------------------------------------------------------- getFriendRequests
\* populate(path, match): the referenced user's id, null (0) when the user
\* is missing or does not pass the match filter
populate(ref, excluded) ==
    IF UserFindById(ref).exists /\ ref \notin excluded THEN ref ELSE 0

AllDocs == {RequestDoc(requests, k) : k \in 1..Len(requests)}

FindIncomingAnyStatus(userId) ==
    {[d EXCEPT !.sender = populate(d.sender, {})] :
        d \in {x \in AllDocs : x.recipient = userId}}

\* find({recipient: userId, status: "pending"}).populate("sender", ...)
FindIncoming(userId) ==
    {[d EXCEPT !.sender = populate(d.sender, {})] :
        d \in {x \in AllDocs : x.recipient = userId /\ x.status = "pending"}}

\* find({$or: [{sender: userId, status: "accepted"}, {recipient: userId,
\* status: "accepted"}]}).populate([sender and recipient, each with
\* match: {_id: {$ne: userId}}])
FindAccepted(userId) ==
    {[d EXCEPT !.sender = populate(d.sender, {userId}),
               !.recipient = populate(d.recipient, {userId})] :
        d \in {x \in AllDocs : /\ x.status = "accepted"
                               /\ (x.sender = userId \/ x.recipient = userId)}}

\* acceptedReqs.filter(req => req.sender !== null && req.recipient !== null)
filteredAcceptedReqs(acceptedReqs) ==
    {d \in acceptedReqs : d.sender # 0 /\ d.recipient # 0}

\* the whole handler: the two queries, the filter and the response
getFriendRequests(c) ==
    /\ ReadFree(c)
    /\ \E myId \in Callers :
       LET call == Entered("requests", "done", myId, Idle)
           userId == ObjectId(myId)
       IN  \/ calls' = Upd(c, Fail(call, "find"))
           \/ calls' = Upd(c, Reply([call EXCEPT
                         !.incomingReqs = FindIncoming(userId),
                         !.acceptedReqs = filteredAcceptedReqs(FindAccepted(userId))],
                       200, ""))
    /\ UNCHANGED <<users, requests, themeStore>>

\* --------------------------------------------------- getOutgoingFriendReqs
\* find({sender: req.user.id, status: "pending"}).populate("recipient", ...)
FindOutgoing(userId) ==
    {[d EXCEPT !.recipient = populate(d.recipient, {})] :
        d \in {x \in AllDocs : x.sender = userId /\ x.status = "pending"}}

\* the whole handler: the query and the response
getOutgoingFriendReqs(c) ==
    /\ ReadFree(c)
    /\ \E myId \in Callers :
       LET call == Entered("outgoing", "done", myId, Idle)
       IN  \/ calls' = Upd(c, Fail(call, "find"))
           \/ calls' = Upd(c, Reply([call EXCEPT
                         !.outgoingRequests = FindOutgoing(ObjectId(myId))], 200, ""))
    /\ UNCHANGED <<users, requests, themeStore>>

\* ------------------------------------------------- the account subsystem
Deleted == Cardinality({u \in UserIds : ~users[u].exists})

\* a user record is removed; a write outside a transaction waits for the
\* open transactions that wrote the document
deleteUser(u) ==
    /\ Quiet
    /\ users[u].exists
    /\ Deleted < MaxDeleted
    /\ \A d \in Calls : <<"user", u>> \notin DocKeys(calls[d].writes)
    /\ users' = [users EXCEPT ![u] = NoUser]
    /\ calls' = MarkStale(calls, 0, {<<"user", u>>})
    /\ UNCHANGED <<requests, themeStore>>

\* a finished invocation leaves
Return(c) ==
    /\ calls[c].pc = "done"
    /\ calls' = Upd(c, Idle)
    /\ UNCHANGED <<users, requests, themeStore>>

HandlerStep ==
    \E c \in Calls :
        \/ sendFriendRequest(c)
        \/ sendCommit(c)
        \/ acceptFriendRequest(c)
        \/ acceptSave(c)
        \/ acceptUpdateUsers(c)
        \/ acceptCommit(c)
        \/ getRecommendedUsers(c)
        \/ recommendFind(c)
        \/ getMyFriends(c)
        \/ getFriendRequests(c)
        \/ getOutgoingFriendReqs(c)
        \/ Return(c)

Next ==
    \/ \E u \in UserIds : deleteUser(u)
    \/ HandlerStep

Spec == Init /\ [][Next]_vars

\* one handler at a time, and no change of the user records under it
NoneRunning == \A d \in Calls : ~Running(calls[d])
SeqNext ==
    \/ NoneRunning /\ \E u \in UserIds : deleteUser(u)
    \/ HandlerStep /\ Cardinality({d \in Calls : calls'[d].pc # "idle"}) <= 1

SeqSpec == Init /\ [][SeqNext]_vars

\* -------------------------------------------- the theme store's behaviour
\* setTheme(theme), first statement: localStorage.setItem("ChatApp", theme),
\* which may throw (storage full or denied) and then ends the call
setTheme(theme) ==
    /\ themeStore.pc = "idle"
    /\ LET call == [themeStore EXCEPT !.arg = theme, !.prev = themeStore.theme,
                                      !.called = TRUE]
       IN  \/ themeStore' = [call EXCEPT !.threw = TRUE]
           \/ themeStore' = [call EXCEPT !.threw = FALSE, !.pc = "set",
                                         !.item = String(theme)]
    /\ UNCHANGED <<users, requests, calls>>

\* setTheme(theme), second statement: set({ theme })
set ==
    /\ themeStore.pc = "set"
    /\ themeStore' = [themeStore EXCEPT !.theme = themeStore.arg, !.pc = "idle"]
    /\ UNCHANGED <<users, requests, calls>>

\* the page is loaded again: the module runs create(...) anew
reload ==
    /\ themeStore.pc = "idle"
    /\ themeStore' = createStore(themeStore.item)
    /\ UNCHANGED <<users, requests, calls>>

ThemeInit ==
    /\ StoreInit
    /\ themeStore \in {createStore(item) : item \in StoredItems}

ThemeNext ==
    \/ \E theme \in ThemeInputs : setTheme(theme)
    \/ set
    \/ reload

ThemeSpec == ThemeInit /\ [][ThemeNext]_vars

\* ==================================================================== claims
\* An invocation that has responded (or ended without a response) stays in
\* its slot for one step, in which nothing else moves: a predicate on it
\* reads the store as the handler left it.
Done(c, op) == calls[c].op = op /\ calls[c].pc = "done"
Me(c) == ObjectId(calls[c].myId)

\* C1: immediately after acceptFriendRequest responds 200 on a request from
\* B to A, A.friends contains B and B.friends contains A, whether or not
\* the sender's user record exists at acceptance time.
C1_AcceptMakesMutualFriends ==
    \A c \in Calls :
        Done(c, "accept") /\ calls[c].res.status = 200 =>
            LET fr == calls[c].friendRequest
            IN  /\ fr.recipient \in users[fr.sender].friends
                /\ fr.sender \in users[fr.recipient].friends

\* C2: at most one FriendRequest is stored per unordered pair of users, for
\* any interleaving of concurrent sendFriendRequest calls.
C2_OneRequestPerPair ==
    \A i, j \in 1..Len(requests) :
        i # j => {requests[i].sender, requests[i].recipient}
                   # {requests[j].sender, requests[j].recipient}

\* the two parties of a request are the users a and b, in either direction
Between(r, a, b) == {r.sender, r.recipient} = {a, b}

\* With one handler at a time the store changes under an invocation only by
\* its own commit; an insert of its own is the last request of the store.
\* The requests between caller and recipient stored when the call began:
PriorRequests(c) ==
    LET n == IF calls[c].committed THEN Len(requests) - 1 ELSE Len(requests)
    IN  {requests[k] : k \in {i \in 1..n :
                                Between(requests[i], Me(c), ObjectId(calls[c].id))}}

ConflictMessages == {"Already friends", "Request already pending", "Already connected"}

C3_Case(c) ==
    /\ Done(c, "send")
    /\ calls[c].fault = "none"
    /\ isValid(calls[c].id)
    /\ ObjectId(calls[c].id) # Me(c)
    /\ PriorRequests(c) # {}

C3_Conflict(c) ==
    /\ calls[c].res.status = 400
    /\ calls[c].res.message \in ConflictMessages
    /\ ~calls[c].committed
    /\ (\A r \in PriorRequests(c) : r.status = "pending")
          => calls[c].res.message = "Request already pending"

\* C3 as stated: sendFriendRequest(A, B), run alone while a request between
\* A and B is stored (either direction, pending or accepted), responds 400
\* Conflict and stores nothing; "Request already pending" when it is pending.
C3_Original == \A c \in Calls : C3_Case(c) => C3_Conflict(c)

\* C3 as amended: the same when the user records of A and of B both exist
\* (the existence check comes before both conflict checks and responds 404).
C3_ExistingRequestConflicts ==
    \A c \in Calls :
        C3_Case(c) /\ users[Me(c)].exists /\ users[ObjectId(calls[c].id)].exists
            => C3_Conflict(c)

\* a request from B to A is pending and A's send to B is refused
C3_Witness ==
    \E c \in Calls :
        /\ C3_Case(c)
        /\ calls[c].res = Res(400, "Request already pending")
        /\ \E r \in PriorRequests(c) : r.sender = ObjectId(calls[c].id)

\* C4: the acceptedReqs of getFriendRequests(C) are exactly the accepted
\* requests with C as sender or recipient whose two users both resolve.
C4_AcceptedListed ==
    \A c \in Calls :
        Done(c, "requests") /\ calls[c].res.status = 200 =>
            {d.oid : d \in calls[c].acceptedReqs}
              = {ReqOid(k) : k \in {i \in 1..Len(requests) :
                    /\ requests[i].status = "accepted"
                    /\ Me(c) \in {requests[i].sender, requests[i].recipient}
                    /\ users[requests[i].sender].exists
                    /\ users[requests[i].recipient].exists}}

\* the step in which handler op is called in slot c
Called(c, op) == calls[c].pc = "idle" /\ calls'[c].op = op

\* the stored request an acceptFriendRequest call names, 0 when none
Named(call) ==
    IF isValid(call.id) /\ ReqIndex(ObjectId(call.id)) \in 1..Len(requests)
    THEN ReqIndex(ObjectId(call.id)) ELSE 0

\* C5: acceptFriendRequest by the recipient of a stored request that is not
\* pending responds 400 "Request already processed" and changes neither a
\* friends set nor the request.
C5_NonPendingRefused ==
    [][\A c \in Calls :
        LET k == Named(calls'[c]) IN
        (/\ Called(c, "accept") /\ calls'[c].fault = "none" /\ k # 0
         /\ requests[k].recipient = ObjectId(calls'[c].myId)
         /\ requests[k].status # "pending")
        => /\ calls'[c].pc = "done"
           /\ calls'[c].res = Res(400, "Request already processed")
           /\ UNCHANGED <<users, requests>>]_vars

C5_Witness ==
    \E c \in Calls :
        /\ Done(c, "accept")
        /\ calls[c].res = Res(400, "Request already processed")
        /\ requests[Named(calls[c])].status = "accepted"

\* C6: acceptFriendRequest on a stored request by anyone but its recipient
\* (its sender too) responds 403 whatever the status, and changes nothing.
C6_NonRecipientForbidden ==
    [][\A c \in Calls :
        LET k == Named(calls'[c]) IN
        (/\ Called(c, "accept") /\ calls'[c].fault = "none" /\ k # 0
         /\ requests[k].recipient # ObjectId(calls'[c].myId))
        => /\ calls'[c].pc = "done"
           /\ calls'[c].res.status = 403
           /\ UNCHANGED <<users, requests>>]_vars

\* the sender of an accepted request tries to accept it
C6_Witness ==
    \E c \in Calls :
        /\ Done(c, "accept")
        /\ calls[c].res.status = 403
        /\ requests[Named(calls[c])].sender = Me(c)
        /\ requests[Named(calls[c])].status = "accepted"

\* C7: the list getRecommendedUsers(C) returns holds neither C nor a user of
\* C's friends set as it is when the response is produced, and only
\* onboarded users.
C7_NoFriendRecommended ==
    \A c \in Calls :
        Done(c, "recommend") /\ calls[c].res.status = 200 =>
            /\ calls[c].body \cap (users[Me(c)].friends \cup {Me(c)}) = {}
            /\ \A u \in calls[c].body : users[u].isOnboarded

\* The five preconditions of sendFriendRequest on what the call read, and
\* the response the first one that fails decides (0: any message).
C8_Expected(call) ==
    LET a == ObjectId(call.myId)
        b == ObjectId(call.id)
    IN  IF ~isValid(call.id) THEN {Res(400, "Invalid user ID")}
        ELSE IF a = b THEN {Res(400, "Cannot send request to yourself")}
        ELSE IF ~call.currentUser.exists \/ ~call.recipient.exists
        THEN {Res(404, "User not found")}
        ELSE IF b \in call.currentUser.friends \/ a \in call.recipient.friends
        THEN {Res(400, "Already friends")}
        ELSE IF \E d \in call.snap : Between(d, a, b)
        THEN {Res(400, "Request already pending"), Res(400, "Already connected")}
        ELSE {Res(201, "")}

\* C8: the response of sendFriendRequest is decided by the first of (1) id
\* valid, (2) caller differs from recipient, (3) both records exist, (4) not
\* friends, (5) no request for the pair that fails, and is 201 only when all
\* five hold.
C8_FirstFailureDecides ==
    \A c \in Calls :
        Done(c, "send") /\ calls[c].fault = "none"
            => calls[c].res \in C8_Expected(calls[c])

\* a step of the sendFriendRequest call in slot c
C9_SendStep(c) == calls'[c].op = "send" /\ calls'[c].pc # calls[c].pc

\* the store changes only by the commit that is answered 201, and then by
\* exactly one new pending request from the caller to the recipient
C9_StoreStep(c) ==
    IF calls'[c].res.status = 201
    THEN /\ requests' = Append(requests,
                [sender |-> ObjectId(calls'[c].myId),
                 recipient |-> ObjectId(calls'[c].id),
                 status |-> "pending"])
         /\ users' = users
    ELSE UNCHANGED <<users, requests>>

\* a failure of the insert or of the commit is answered 500
C9_FailureAnswered(c) ==
    calls'[c].fault \in {"create", "commitTransaction"}
        => calls'[c].res = Res(500, "Server error")

\* C9: a sendFriendRequest call that does not respond 201 leaves requests
\* and friends sets as they were, a failure of the insert or of the commit
\* is answered 500, and a 201 response means exactly one new pending request
\* from the caller to the recipient has been committed.
C9_SendAllOrNothing ==
    [][\A c \in Calls :
        C9_SendStep(c) => C9_StoreStep(c) /\ C9_FailureAnswered(c)]_vars

\* the store part of C9 alone, without the response to a failure
C9_StoreAllOrNothing ==
    [][\A c \in Calls : C9_SendStep(c) => C9_StoreStep(c)]_vars

\* C10: when the status save, a friends-set update or the commit of
\* acceptFriendRequest fails, the call responds 500, the request is still
\* pending and neither friends set has changed.
C10_FailedAcceptAnswers500 ==
    \A c \in Calls :
        (/\ Done(c, "accept")
         /\ calls[c].fault \in {"save", "findByIdAndUpdate", "commitTransaction"})
        => LET k == Named(calls[c]) IN
           /\ calls[c].res = Res(500, "Server error")
           /\ requests[k].status = "pending"
           /\ requests[k].recipient \notin users[requests[k].sender].friends
           /\ requests[k].sender \notin users[requests[k].recipient].friends

\* the user records that exist
Existing == {u \in UserIds : users[u].exists}

\* what a sendFriendRequest call has read of its two users and their requests
C11_SendObserves(call) ==
    LET a == ObjectId(call.myId)
        b == ObjectId(call.id)
    IN  (call.op = "send" /\ call.currentUser.exists /\ call.recipient.exists)
        => /\ b \in call.currentUser.friends <=> a \in call.recipient.friends
           /\ (\E d \in call.snap : d.status = "accepted" /\ Between(d, a, b))
                => b \in call.currentUser.friends

\* C11: among the user records that exist the friends relation is symmetric
\* and an accepted request goes with both directions of the friendship, in
\* the store and in what getMyFriends and sendFriendRequest read of it while
\* acceptFriendRequest calls run beside them.
C11_FriendsSymmetric ==
    /\ \A a, b \in Existing : a \in users[b].friends <=> b \in users[a].friends
    /\ \A k \in 1..Len(requests) :
          (/\ requests[k].status = "accepted"
           /\ {requests[k].sender, requests[k].recipient} \subseteq Existing)
          => /\ requests[k].recipient \in users[requests[k].sender].friends
             /\ requests[k].sender \in users[requests[k].recipient].friends
    /\ \A c \in Calls :
          /\ C11_SendObserves(calls[c])
          /\ Done(c, "friends") => \A f \in calls[c].body : Me(c) \in users[f].friends

\* C11 as stated, over every user id a friends set can hold
C11_Original ==
    \A a, b \in UserIds : a \in users[b].friends <=> b \in users[a].friends

\* a send reads its two users while the accept of their request has its
\* three writes pending, and sees the request pending and no friendship
C11_Witness ==
    \E c, d \in Calls :
        /\ Done(c, "send")
        /\ calls[c].res = Res(400, "Request already pending")
        /\ calls[d].op = "accept" /\ calls[d].pc = "commit"
        /\ Between(calls[d].friendRequest, Me(c), ObjectId(calls[c].id))
        /\ Cardinality(DocKeys(calls[d].writes)) = 3

\* how often, and where first, a handler made the call `what`
Count(effects, what) == Cardinality({i \in 1..Len(effects) : effects[i] = what})
First(effects, what) ==
    IF Count(effects, what) = 0 THEN Len(effects) + 1
    ELSE CHOOSE i \in 1..Len(effects) :
            effects[i] = what /\ \A j \in 1..(i - 1) : effects[j] # what

\* the invocations of the two handlers that run in a transaction
Transacted(c) == calls[c].op \in {"send", "accept"} /\ calls[c].pc = "done"

\* C12: on every exit path of sendFriendRequest and acceptFriendRequest after
\* the transaction has been started, the transaction is explicitly committed
\* or explicitly aborted before the response is sent, the commit happens only
\* on the success path, the session is ended exactly once, as the last call,
\* and abortTransaction is never called after a successful commit.
C12_TransactionDiscipline ==
    \A c \in Calls :
        (Transacted(c) /\ Count(calls[c].effects, "startTransaction") = 1) =>
            LET e == calls[c].effects
                ok == calls[c].res.status \in {200, 201}
            IN  /\ Count(e, "commitTransaction") + Count(e, "abortTransaction") = 1
                /\ Count(e, "res.json") = 1 =>
                      \/ First(e, "commitTransaction") < First(e, "res.json")
                      \/ First(e, "abortTransaction") < First(e, "res.json")
                /\ Count(e, "commitTransaction") = 1 => ok
                /\ Count(e, "endSession") = 1 /\ e[Len(e)] = "endSession"
                /\ calls[c].committed => Count(e, "abortTransaction") = 0

\* the invocation whose step this is, if it is the step of one
C13_Actor(c) == calls'[c] # calls[c] /\ calls'[c].op # "idle"

\* C13: a stored FriendRequest is created only by sendFriendRequest, as
\* pending from the caller to the recipient; its status changes only from
\* pending to accepted and only in an acceptFriendRequest call of its
\* recipient; accepted it never changes; its sender and recipient never
\* change; no step removes a stored request.
C13_LifecycleMonotonic ==
    [][/\ Len(requests') >= Len(requests)
       /\ Len(requests') <= Len(requests) + 1
       /\ \A k \in 1..Len(requests) :
             /\ requests'[k].sender = requests[k].sender
             /\ requests'[k].recipient = requests[k].recipient
             /\ requests'[k].status # requests[k].status =>
                   /\ requests[k].status = "pending"
                   /\ requests'[k].status = "accepted"
                   /\ \E c \in Calls :
                         /\ C13_Actor(c)
                         /\ calls'[c].op = "accept"
                         /\ calls'[c].res.status = 200
                         /\ ObjectId(calls'[c].id) = ReqOid(k)
                         /\ ObjectId(calls'[c].myId) = requests[k].recipient
       /\ Len(requests') = Len(requests) + 1 =>
             \E c \in Calls :
                 /\ C13_Actor(c)
                 /\ calls'[c].op = "send"
                 /\ requests'[Len(requests')] =
                        [sender |-> ObjectId(calls'[c].myId),
                         recipient |-> ObjectId(calls'[c].id),
                         status |-> "pending"]]_vars

\* a request has been accepted and a later accept of it left it as it was
C13_Witness ==
    \E c \in Calls :
        /\ Done(c, "accept")
        /\ calls[c].res.status = 400
        /\ calls[c].friendRequest.status = "accepted"
        /\ Len(requests) = MaxRequests

\* C14: every invocation of sendFriendRequest and acceptFriendRequest sends
\* exactly one response, and an invocation in which a call failed (starting
\* the session, a store call, the commit) answers 500 "Server error".
C14_OneResponse ==
    \A c \in Calls :
        Transacted(c) =>
            /\ Count(calls[c].effects, "res.json") = 1
            /\ calls[c].res # NoRes
            /\ calls[c].fault # "none" => calls[c].res = Res(500, "Server error")

\* C15: a sendFriendRequest whose recipient is the caller answers 400 "Cannot
\* send request to yourself" having read and written nothing, no stored
\* request has its sender as recipient, and no friends set holds its owner.
C15_NoSelfRequest ==
    /\ \A c \in Calls :
          (Done(c, "send") /\ isValid(calls[c].id) /\ ObjectId(calls[c].id) = Me(c)
             /\ calls[c].fault = "none")
          => /\ calls[c].res = Res(400, "Cannot send request to yourself")
             /\ calls[c].txn # TRANSACTION_COMMITTED
             /\ calls[c].currentUser = NoUser /\ calls[c].recipient = NoUser
    /\ \A k \in 1..Len(requests) : requests[k].sender # requests[k].recipient
    /\ \A u \in UserIds : u \notin users[u].friends

\* C16: an invocation of sendFriendRequest or acceptFriendRequest with a
\* structurally invalid id answers 400 without having started a session or
\* a transaction and without a read or a write.
C16_ValidityBeforeStore ==
    \A c \in Calls :
        (Transacted(c) /\ ~isValid(calls[c].id) /\ calls[c].res # NoRes) =>
            /\ calls[c].res.status = 400
            /\ calls[c].currentUser = NoUser /\ calls[c].recipient = NoUser
            /\ calls[c].friendRequest = NoRequest /\ calls[c].snap = {}
            /\ ~calls[c].committed
            /\ Count(calls[c].effects, "startSession") = 0
            /\ Count(calls[c].effects, "startTransaction") = 0

\* the stored pending requests with user u in the given role
C17_Pending(role, u) ==
    {ReqOid(k) : k \in {i \in 1..Len(requests) :
                          requests[i].status = "pending" /\ requests[i][role] = u}}

\* C17: the incomingReqs of getFriendRequests(B) are exactly the pending
\* requests with recipient B and the result of getOutgoingFriendReqs(A) is
\* exactly the pending requests with sender A: a pending request from A to B
\* is in these two listings and in no other user's, an accepted one in none.
C17_PendingListings ==
    \A c \in Calls :
        /\ (Done(c, "requests") /\ calls[c].res.status = 200) =>
              {d.oid : d \in calls[c].incomingReqs} = C17_Pending("recipient", Me(c))
        /\ (Done(c, "outgoing") /\ calls[c].res.status = 200) =>
              {d.oid : d \in calls[c].outgoingRequests} = C17_Pending("sender", Me(c))

\* a caller with a pending and an accepted request addressed to it lists
\* its incoming requests
C17_Witness ==
    \E c \in Calls :
        /\ Done(c, "requests")
        /\ calls[c].incomingReqs # {}
        /\ \E k \in 1..Len(requests) :
              requests[k].status = "accepted" /\ requests[k].recipient = Me(c)

\* the store after one acceptance of request k, as seen from the store before
C18_Accepted(k) ==
    LET s == requests[k].sender
        r == requests[k].recipient
    IN  /\ requests[k].status = "pending"
        /\ requests' = [requests EXCEPT ![k].status = "accepted"]
        /\ users' = [u \in UserIds |->
                       IF users[u].exists
                       THEN [users[u] EXCEPT !.friends =
                               @ \cup (IF u = s THEN {r} ELSE {})
                                 \cup (IF u = r THEN {s} ELSE {})]
                       ELSE users[u]]

\* C18: of the acceptFriendRequest calls by the recipient for one stored
\* request, running one after another or together, only a call that finds
\* and leaves the request pending-then-accepted responds 200, and its commit
\* is exactly one acceptance; every other call changes nothing and, unless
\* starting its session or its commit failed, responds 400 or 500; an
\* accepted request stays accepted, so at most one call responds 200.
C18_ConcurrentAccepts ==
    [][/\ \A c \in Calls :
            LET k == Named(calls'[c]) IN
            (/\ calls'[c].op = "accept" /\ calls'[c].pc = "done"
             /\ calls[c].pc # "done" /\ k # 0
             /\ requests[k].recipient = ObjectId(calls'[c].myId))
            => IF calls'[c].res.status = 200
               THEN C18_Accepted(k)
               ELSE /\ UNCHANGED <<users, requests>>
                    /\ calls'[c].fault \notin {"startSession", "commitTransaction"}
                          => calls'[c].res.status \in {400, 500}
       /\ \A k \in 1..Len(requests) :
            requests[k].status = "accepted" => requests'[k].status = "accepted"]_vars

\* one accept is refused by a write conflict while another accept of the
\* same request holds its writes
C18_Witness ==
    \E c, d \in Calls :
        /\ c # d
        /\ Done(c, "accept") /\ calls[c].res = Res(500, "Server error")
        /\ calls[c].fault = "save"
        /\ calls[d].op = "accept" /\ calls[d].pc \in {"updateUsers", "commit"}
        /\ calls[d].id = calls[c].id /\ calls[d].myId = calls[c].myId

\* C19: when both user records existed at the acceptance, a sendFriendRequest
\* between two users with an accepted request between them responds "Already
\* friends", never "Already connected".
C19_AlreadyConnectedUnreachable ==
    \A c \in Calls :
        Done(c, "send") =>
            /\ calls[c].res.message # "Already connected"
            /\ (/\ calls[c].fault = "none"
                /\ calls[c].currentUser.exists /\ calls[c].recipient.exists
                /\ \E d \in calls[c].snap : d.status = "accepted")
               => calls[c].res = Res(400, "Already friends")

\* a send between two users with an accepted request is refused
C19_Witness ==
    \E c \in Calls :
        /\ Done(c, "send")
        /\ calls[c].res = Res(400, "Already friends")
        /\ \E k \in 1..Len(requests) :
              /\ requests[k].status = "accepted"
              /\ Between(requests[k], Me(c), ObjectId(calls[c].id))

\* the store is between two calls
ThemeIdle == themeStore.pc = "idle"

\* C20 as stated: after setTheme calls the in-memory theme equals the value
\* persisted under "ChatApp".
C20_Original ==
    (ThemeIdle /\ themeStore.called) => themeStore.theme = themeStore.item

\* C20: between calls the persisted item is the string form of the in-memory
\* theme, or nothing (or an empty value) is persisted and the theme is
\* "forest"; setTheme writes the item before it sets the state; a setTheme
\* whose write throws leaves theme and item as they were.
C20_ThemeMatchesStorage ==
    /\ ThemeIdle =>
          \/ themeStore.item = String(themeStore.theme)
          \/ ~Truthy(themeStore.item) /\ themeStore.theme = Str("forest")
    /\ themeStore.pc = "set" =>
          /\ themeStore.item = String(themeStore.arg)
          /\ themeStore.theme = themeStore.prev
    /\ themeStore.threw =>
          /\ ThemeIdle
          /\ themeStore.theme = themeStore.prev

\* a setTheme threw after another had changed the theme
C20_Witness ==
    /\ themeStore.threw
    /\ themeStore.theme = Str("dark")
    /\ themeStore.item = Str("dark")
    /\ themeStore.arg = Str("light")

====
